---- MODULE Spec2Model ----
(***************************************************************************)
(* Get-ChangedDisksSince: the disk-change correlation pipeline of          *)
(* src/webapp/ext/controller/AnalyticalListPageExt.controller.js (the      *)
(* PowerShell script that starts at line 201).                             *)
(*                                                                         *)
(* Strings whose letter case matters are records [id, cs]: the case-folded *)
(* text and its casing.  PowerShell's -eq, -match and @{} hashtable keys   *)
(* ignore the casing; a HashSet[string] and .NET equality do not.          *)
(* Times are integers.  $null is Null (a string), NoRid (a resource id)    *)
(* or "null" (a plain scalar).                                             *)
(***************************************************************************)
EXTENDS Integers, Sequences, FiniteSets, TLC

VARIABLES
    subsObj,        \* $subsObj: the subscriptions left after filtering
    azLog,          \* the Activity Log service: per subscription, what Set-AzContext and Get-AzActivityLog answer
    argSrv,         \* the Resource Graph service: whether the module loads, what Search-AzGraph answers
    pc,             \* position of the script
    argAvailable,   \* $argAvailable
    newDisksArg,    \* $newDisksArg
    subIdx,         \* position of foreach ($sub in $subsObj)
    diskChanges,    \* $diskChanges
    attachChanges,  \* $attachChanges
    vmEventsByVm,   \* $vmEventsByVm
    keysLeft,       \* keys that foreach ($key in $vmEventsByVm.Keys) has still to visit
    diskMeta,       \* $diskMeta
    bfIdx,          \* position of foreach ($d in $newDisksArg)
    diskCsv,        \* rows written to $CsvPath
    attachCsv       \* rows written to $attachCsv

vars == <<subsObj, azLog, argSrv, pc, argAvailable, newDisksArg, subIdx, diskChanges,
          attachChanges, vmEventsByVm, keysLeft, diskMeta, bfIdx, diskCsv, attachCsv>>

world == <<subsObj, azLog, argSrv>>

\* ------------------------------------------------------------------ bounds
MaxTime == 3
MaxPages == 3
MaxSubs == 2
MaxMeta == 2
MaxSegments == 10

\* [datetime] $StartDate: events before it do not qualify
StartDate == 1

\* ----------------------------------------------------------------- strings
Lower(s) == [id |-> s, cs |-> "lower"]
Mixed(s) == [id |-> s, cs |-> "mixed"]
Null == [id |-> "$null", cs |-> "lower"]
NoRid == <<>>

\* String.ToLower()
ToLower(n) == [n EXCEPT !.cs = "lower"]

\* -eq on two strings: PowerShell compares them ignoring case
PsEq(a, b) == ToLower(a) = ToLower(b)

InSeq(x, s) == \E i \in 1..Len(s) : s[i] = x

\* HashSet[string].Add: ordinal comparison, insertion order kept
HashSetAdd(h, x) == IF InSeq(x, h) THEN h ELSE Append(h, x)

RECURSIVE HashSetOf(_)
HashSetOf(s) == IF s = <<>> THEN <<>> ELSE HashSetAdd(HashSetOf(SubSeq(s, 1, Len(s) - 1)), s[Len(s)])

\* ----------------------------------------------------------------- helpers
\* [string]::IsNullOrWhiteSpace on a path given by its segments: no text at all, or
\* one segment of blanks (a path with a '/' in it is not blank)
IsNullOrWhiteSpace(parts) ==
    parts = <<>> \/ (Len(parts) = 1 /\ parts[1].id \in {"", " "})

\* $parts[k] for the 1-based position p = k + 1: $null beyond the end
Part(parts, p) == IF p <= Len(parts) THEN parts[p] ELSE Null

\* "$(...)" in a string: $null expands to the empty string
Expand(x) == IF x = Null THEN Lower("") ELSE x

NullResult ==
    [SubscriptionId |-> Null, ResourceGroup |-> Null, Provider |-> <<>>, Type |-> Null, Name |-> Null]

\* the name and the type are set from eight segments on
ParseResourceIdNameFromEight(parts) ==
    IF IsNullOrWhiteSpace(parts) THEN NullResult
    ELSE [SubscriptionId |-> IF Len(parts) >= 3 THEN parts[3] ELSE Null,
          ResourceGroup  |-> IF Len(parts) >= 5 THEN parts[5] ELSE Null,
          Provider       |-> IF Len(parts) >= 7
                             THEN <<Expand(Part(parts, 7)), Expand(Part(parts, 8))>>
                             ELSE <<>>,
          Type           |-> IF Len(parts) >= 8 THEN parts[8] ELSE Null,
          Name           |-> IF Len(parts) >= 8 THEN Part(parts, 9) ELSE Null]

\* Parse-ResourceId on the segments of $rid -split '/'; Provider is the pair that
\* "$($parts[6])/$($parts[7])" joins, <<>> while it is $null
ParseResourceId(parts) ==
    IF IsNullOrWhiteSpace(parts) THEN NullResult
    ELSE [SubscriptionId |-> IF Len(parts) >= 3 THEN parts[3] ELSE Null,
          ResourceGroup  |-> IF Len(parts) >= 5 THEN parts[5] ELSE Null,
          Provider       |-> IF Len(parts) >= 7
                             THEN <<Expand(Part(parts, 7)), Expand(Part(parts, 8))>>
                             ELSE <<>>,
          Type           |-> IF Len(parts) >= 9 THEN parts[8] ELSE Null,
          Name           |-> IF Len(parts) >= 9 THEN parts[9] ELSE Null]

\* Get-ActivityJson: the payload of the log entry
GetActivityJson(op) == op.Properties

\* Try-Parse-Field: the first value of the field in the payload, "null" without one
TryParseField(json, fieldName) ==
    IF fieldName \in DOMAIN json.fields THEN json.fields[fieldName] ELSE "null"

\* Extract-DiskIdsFromVmJson: the managedDisk ids of the payload, as a HashSet
ExtractDiskIdsFromVmJson(json) == HashSetOf(json.managedDisks)

\* Invoke-ArgQuery: srv[k] answers the k-th request, SkipToken names the next one (0: none)
RECURSIVE ArgLoop(_, _, _)
ArgLoop(srv, k, all) ==
    IF k \notin DOMAIN srv \/ ~srv[k].ok
    THEN all
    ELSE LET more == IF srv[k].Data # <<>> THEN all \o srv[k].Data ELSE all
         IN  IF srv[k].SkipToken # 0 THEN ArgLoop(srv, srv[k].SkipToken, more) ELSE more

InvokeArgQueryFirstPageOnly(srv) ==
    IF 1 \notin DOMAIN srv \/ ~srv[1].ok THEN <<>> ELSE srv[1].Data

InvokeArgQuery(srv) == ArgLoop(srv, 1, <<>>)

\* Sort-Object <time property>: the orders of the indices of T (the times) it may
\* deliver; objects with equal times come in any order
RECURSIVE SortOrders(_, _)
SortOrders(T, S) ==
    IF S = {} THEN {<<>>}
    ELSE UNION { { <<i>> \o r : r \in SortOrders(T, S \ {i}) } :
                 i \in { i \in S : \A j \in S : T[i] <= T[j] } }

SortObjectKeepsOrder(seq, T) == {seq}

SortObject(seq, T) == { [i \in 1..Len(seq) |-> seq[o[i]]] : o \in SortOrders(T, 1..Len(seq)) }

\* ------------------------------------------------- disk change records
OpNameMatches(opNameVal, suffix) ==
    Len(opNameVal) >= 2 /\ PsEq(opNameVal[Len(opNameVal)], Lower(suffix))

\* the patterns without the end anchor: a segment anywhere after the first
ChangeTypeOfUnanchored(opNameVal) ==
    LET has(word) == \E p \in 2..Len(opNameVal) : PsEq(opNameVal[p], Lower(word))
    IN  IF has("delete") THEN "Deleted"
        ELSE IF has("write") THEN "Updated"
        ELSE IF has("create") THEN "Created"
        ELSE "Updated"

ChangeTypeOf(opNameVal) ==
    IF OpNameMatches(opNameVal, "delete") THEN "Deleted"
    ELSE IF OpNameMatches(opNameVal, "write") THEN "Updated"
    ELSE IF OpNameMatches(opNameVal, "create") THEN "Created"
    ELSE "Updated"

QualifiesDisk(op) ==
    /\ op.ResultType = "Success"
    /\ op.EventTimestamp >= StartDate
    /\ op.ResourceType = "Microsoft.Compute/disks"

QualifiesVm(op) ==
    /\ op.ResultType = "Success"
    /\ op.EventTimestamp >= StartDate
    /\ op.ResourceType = "Microsoft.Compute/virtualMachines"
    /\ Len(op.OperationNameValue) = 3
    /\ PsEq(op.OperationNameValue[1], Lower("Microsoft.Compute"))
    /\ PsEq(op.OperationNameValue[2], Lower("virtualMachines"))
    /\ PsEq(op.OperationNameValue[3], Lower("write"))

\* the record with the resource group of the resource id as its Location
DiskChangeOfOpLocationFromId(op) ==
    LET ridInfo == ParseResourceId(op.ResourceId)
        json    == GetActivityJson(op)
    IN  [ChangeType      |-> ChangeTypeOf(op.OperationNameValue),
         DiskName        |-> ridInfo.Name,
         SubscriptionId  |-> ridInfo.SubscriptionId,
         ResourceGroup   |-> ridInfo.ResourceGroup,
         Location        |-> ridInfo.ResourceGroup,
         EventTime       |-> op.EventTimestamp,
         Operation       |-> op.OperationNameValue,
         Caller          |-> op.Caller,
         RequestedSizeGB |-> TryParseField(json, "diskSizeGB"),
         RequestedSku    |-> TryParseField(json, "name"),
         RequestedEnc    |-> TryParseField(json, "encryptionType"),
         Source          |-> "ActivityLog",
         ResourceId      |-> op.ResourceId,
         CorrelationId   |-> op.CorrelationId]

DiskChangeOfOp(op) ==
    LET ridInfo == ParseResourceId(op.ResourceId)
        json    == GetActivityJson(op)
    IN  [ChangeType      |-> ChangeTypeOf(op.OperationNameValue),
         DiskName        |-> ridInfo.Name,
         SubscriptionId  |-> ridInfo.SubscriptionId,
         ResourceGroup   |-> ridInfo.ResourceGroup,
         Location        |-> op.ResourceGroupName,
         EventTime       |-> op.EventTimestamp,
         Operation       |-> op.OperationNameValue,
         Caller          |-> op.Caller,
         RequestedSizeGB |-> TryParseField(json, "diskSizeGB"),
         RequestedSku    |-> TryParseField(json, "name"),
         RequestedEnc    |-> TryParseField(json, "encryptionType"),
         Source          |-> "ActivityLog",
         ResourceId      |-> op.ResourceId,
         CorrelationId   |-> op.CorrelationId]

DiskChangesOfLog(ops) ==
    LET logDisks == SelectSeq(ops, QualifiesDisk)
    IN  [i \in 1..Len(logDisks) |-> DiskChangeOfOp(logDisks[i])]

\* ------------------------------------------------------ VM snapshots
VmEventOfOp(op) ==
    LET ridInfo == ParseResourceId(op.ResourceId)
        json    == GetActivityJson(op)
    IN  [Time    |-> op.EventTimestamp,
         DiskIds |-> ExtractDiskIdsFromVmJson(json),
         Vm      |-> ridInfo.Name,
         SubId   |-> ridInfo.SubscriptionId,
         Rg      |-> ridInfo.ResourceGroup,
         Json    |-> json,
         CorrId  |-> op.CorrelationId]

\* the key "{subId}|{rg}|{vmName}" as the hashtable @{} sees it: letter case ignored
VmKey(ev) == <<ToLower(ev.SubId), ToLower(ev.Rg), ToLower(ev.Vm)>>

AddVmEvent(map, ev) ==
    IF VmKey(ev) \in DOMAIN map
    THEN [map EXCEPT ![VmKey(ev)] = Append(@, ev)]
    ELSE map @@ (VmKey(ev) :> <<ev>>)

RECURSIVE CollectVmEvents(_, _)
CollectVmEvents(map, logVms) ==
    IF logVms = <<>> THEN map
    ELSE CollectVmEvents(AddVmEvent(map, VmEventOfOp(Head(logVms))), Tail(logVms))

\* ------------------------------------------------------ attachment diff
AttachedRecord(prev, curr, id) ==
    [ChangeType     |-> "Attached",
     VmName         |-> curr.Vm,
     SubscriptionId |-> curr.SubId,
     ResourceGroup  |-> curr.Rg,
     DiskId         |-> id,
     EventTime      |-> curr.Time,
     Source         |-> "ActivityLog(VM write)",
     CorrelationId  |-> curr.CorrId]

DetachedRecordOfCurrentVm(prev, curr, id) ==
    [ChangeType     |-> "Detached",
     VmName         |-> curr.Vm,
     SubscriptionId |-> curr.SubId,
     ResourceGroup  |-> curr.Rg,
     DiskId         |-> id,
     EventTime      |-> curr.Time,
     Source         |-> "ActivityLog(VM write)",
     CorrelationId  |-> curr.CorrId]

DetachedRecord(prev, curr, id) ==
    [ChangeType     |-> "Detached",
     VmName         |-> prev.Vm,
     SubscriptionId |-> prev.SubId,
     ResourceGroup  |-> prev.Rg,
     DiskId         |-> id,
     EventTime      |-> curr.Time,
     Source         |-> "ActivityLog(VM write)",
     CorrelationId  |-> curr.CorrId]

\* one turn of the for loop: the records of the pair ($seq[$i-1], $seq[$i])
DiffPair(prev, curr) ==
    LET prevIds  == HashSetOf(prev.DiskIds)
        currIds  == HashSetOf(curr.DiskIds)
        attached == SelectSeq(currIds, LAMBDA id : ~InSeq(id, prevIds))
        detached == SelectSeq(prevIds, LAMBDA id : ~InSeq(id, currIds))
    IN  [i \in 1..Len(attached) |-> AttachedRecord(prev, curr, attached[i])]
        \o [i \in 1..Len(detached) |-> DetachedRecord(prev, curr, detached[i])]

\* for ($i = 1; $i -lt $seq.Count; $i++), i counted from 2 here
RECURSIVE DiffFrom(_, _)
DiffFrom(seq, i) ==
    IF i > Len(seq) THEN <<>> ELSE DiffPair(seq[i - 1], seq[i]) \o DiffFrom(seq, i + 1)

RECURSIVE DiffAgainstFirst(_, _)
DiffAgainstFirst(seq, i) ==
    IF i > Len(seq) THEN <<>> ELSE DiffPair(seq[1], seq[i]) \o DiffAgainstFirst(seq, i + 1)

DiffSeqAgainstFirst(seq) == DiffAgainstFirst(seq, 2)

DiffSeq(seq) == DiffFrom(seq, 2)

\* ------------------------------------------------------ ARG enrichment
MetaKey(m) == <<ToLower(m.subscriptionId), ToLower(m.resourceGroup), ToLower(m.diskName)>>

RowKey(row) == <<ToLower(row.SubscriptionId), ToLower(row.ResourceGroup), ToLower(row.DiskName)>>

\* $indexDisk[$key] = $m for each row of $diskMeta in turn: the last row of a key stays
RECURSIVE IndexDisk(_, _)
IndexDisk(index, metas) ==
    IF metas = <<>> THEN index
    ELSE LET m == Head(metas)
         IN  IndexDisk(IF MetaKey(m) \in DOMAIN index
                       THEN [index EXCEPT ![MetaKey(m)] = m]
                       ELSE index @@ (MetaKey(m) :> m),
                       Tail(metas))

\* $row.PSObject.Properties.Match(name): the collection of the row's properties of that name
PropertiesMatch(row, name) == { p \in DOMAIN row : p = name }

\* The conversion to a boolean that -not applies to the collection Match returns:
\* a ReadOnlyPSMemberInfoCollection is no IList, so PowerShell converts it like any
\* other non-null object, to $true, whether it holds a property or not.
IsTrue(collection) == TRUE

\* Add-Member -NotePropertyName name -NotePropertyValue value -Force
AddMember(row, name, value) ==
    IF name \in DOMAIN row THEN [row EXCEPT ![name] = value] ELSE row @@ (name :> value)

EnrichRowAlsoRenamesGroup(row, indexDisk) ==
    IF RowKey(row) \in DOMAIN indexDisk
    THEN [row EXCEPT !.Location = indexDisk[RowKey(row)].location,
                     !.ResourceGroup = indexDisk[RowKey(row)].resourceGroup]
    ELSE row

\* the body of foreach ($row in $diskChanges)
EnrichRow(row, indexDisk) ==
    IF RowKey(row) \in DOMAIN indexDisk
    THEN LET meta == indexDisk[RowKey(row)]
             r1   == [row EXCEPT !.Location = meta.location]
             r2   == IF ~IsTrue(PropertiesMatch(r1, "CurrentSizeGB"))
                     THEN AddMember(r1, "CurrentSizeGB", meta.diskSizeGB) ELSE r1
             r3   == IF ~IsTrue(PropertiesMatch(r2, "CurrentSku"))
                     THEN AddMember(r2, "CurrentSku", meta.sku) ELSE r2
             r4   == IF ~IsTrue(PropertiesMatch(r3, "ManagedBy"))
                     THEN AddMember(r3, "ManagedBy", meta.managedBy) ELSE r3
         IN  r4
    ELSE row

\* ------------------------------------------------------ ARG new disks
ExistsCreatedExactCase(list, d) ==
    \E i \in 1..Len(list) :
        /\ list[i].ChangeType = "Created"
        /\ list[i].SubscriptionId = d.subscriptionId
        /\ list[i].ResourceGroup = d.resourceGroup
        /\ list[i].DiskName = d.name

\* the same test with a property name the rows of $newDisksArg do not have
ExistsCreatedWrongProperty(list, d) ==
    \E i \in 1..Len(list) :
        /\ list[i].ChangeType = "Created"
        /\ PsEq(list[i].SubscriptionId, d.subscriptionId)
        /\ PsEq(list[i].ResourceGroup, d.resourceGroup)
        /\ PsEq(list[i].DiskName, Null)

\* $exists: a Created row of the list that -eq finds equal to $d in all three names
ExistsCreated(list, d) ==
    \E i \in 1..Len(list) :
        /\ list[i].ChangeType = "Created"
        /\ PsEq(list[i].SubscriptionId, d.subscriptionId)
        /\ PsEq(list[i].ResourceGroup, d.resourceGroup)
        /\ PsEq(list[i].DiskName, d.name)

ArgDiskChange(d) ==
    [ChangeType      |-> "Created",
     DiskName        |-> d.name,
     SubscriptionId  |-> d.subscriptionId,
     ResourceGroup   |-> d.resourceGroup,
     Location        |-> d.location,
     EventTime       |-> d.timeCreated,
     Operation       |-> <<Lower("ARG: timeCreated")>>,
     Caller          |-> "null",
     RequestedSizeGB |-> d.diskSizeGB,
     RequestedSku    |-> d.sku,
     RequestedEnc    |-> d.encryption,
     Source          |-> "ARG",
     ResourceId      |-> NoRid,
     CorrelationId   |-> 0,
     ManagedBy       |-> d.managedBy]

\* ------------------------------------------------------------ the script
\* where the script goes when foreach ($sub in $subsObj) has no subscription left
AfterSub(vm) ==
    IF subIdx < Len(subsObj)
    THEN /\ pc' = "SetContext"
         /\ subIdx' = subIdx + 1
         /\ keysLeft' = keysLeft
    ELSE /\ pc' = IF DOMAIN vm = {} THEN "Enrich" ELSE "Diff"
         /\ subIdx' = subIdx + 1
         /\ keysLeft' = DOMAIN vm

\* the subscription check, Test-ArgAvailable and the query of the disks created since StartDate
Start ==
    /\ pc = "Start"
    /\ IF Len(subsObj) = 0
       THEN /\ pc' = "Exit"
            /\ UNCHANGED <<argAvailable, newDisksArg>>
       ELSE /\ pc' = "SetContext"
            /\ argAvailable' = argSrv.avail
            /\ newDisksArg' = IF argSrv.avail THEN InvokeArgQuery(argSrv.new) ELSE <<>>
    /\ UNCHANGED <<world, subIdx, diskChanges, attachChanges, vmEventsByVm, keysLeft,
                   diskMeta, bfIdx, diskCsv, attachCsv>>

\* Set-AzContext; its failure is caught and the subscription skipped (continue)
SetContext ==
    /\ pc = "SetContext"
    /\ IF azLog[subIdx].ctx
       THEN /\ pc' = "ReadDisks"
            /\ UNCHANGED <<subIdx, keysLeft>>
       ELSE AfterSub(vmEventsByVm)
    /\ UNCHANGED <<world, argAvailable, newDisksArg, diskChanges, attachChanges,
                   vmEventsByVm, diskMeta, bfIdx, diskCsv, attachCsv>>

\* a disk read whose failure leaves the rest of the subscription out
ReadDisksFailureEndsSubscription ==
    /\ pc = "ReadDisks"
    /\ IF azLog[subIdx].disks.ok
       THEN /\ diskChanges' = diskChanges \o DiskChangesOfLog(azLog[subIdx].disks.ops)
            /\ pc' = "ReadVms"
            /\ UNCHANGED <<subIdx, keysLeft>>
       ELSE /\ diskChanges' = diskChanges
            /\ AfterSub(vmEventsByVm)
    /\ UNCHANGED <<world, argAvailable, newDisksArg, attachChanges, vmEventsByVm,
                   diskMeta, bfIdx, diskCsv, attachCsv>>

\* the disk log of the subscription: a failed read is caught and adds nothing
ReadDisks ==
    /\ pc = "ReadDisks"
    /\ diskChanges' = IF azLog[subIdx].disks.ok
                      THEN diskChanges \o DiskChangesOfLog(azLog[subIdx].disks.ops)
                      ELSE diskChanges
    /\ pc' = "ReadVms"
    /\ UNCHANGED <<world, argAvailable, newDisksArg, subIdx, attachChanges, vmEventsByVm,
                   keysLeft, diskMeta, bfIdx, diskCsv, attachCsv>>

\* the VM write log of the subscription: a failed read is caught and adds nothing
ReadVms ==
    /\ pc = "ReadVms"
    /\ vmEventsByVm' = IF azLog[subIdx].vms.ok
                       THEN CollectVmEvents(vmEventsByVm,
                                            SelectSeq(azLog[subIdx].vms.ops, QualifiesVm))
                       ELSE vmEventsByVm
    /\ AfterSub(vmEventsByVm')
    /\ UNCHANGED <<world, argAvailable, newDisksArg, diskChanges, attachChanges,
                   diskMeta, bfIdx, diskCsv, attachCsv>>

\* one key of foreach ($key in $vmEventsByVm.Keys): sort its events, diff the neighbours
DiffKey ==
    /\ pc = "Diff"
    /\ \E key \in keysLeft :
         \E seq \in SortObject(vmEventsByVm[key],
                               [i \in 1..Len(vmEventsByVm[key]) |-> vmEventsByVm[key][i].Time]) :
            /\ attachChanges' = attachChanges \o DiffSeq(seq)
            /\ keysLeft' = keysLeft \ {key}
            /\ pc' = IF keysLeft \ {key} = {} THEN "Enrich" ELSE "Diff"
    /\ UNCHANGED <<world, argAvailable, newDisksArg, subIdx, diskChanges, vmEventsByVm,
                   diskMeta, bfIdx, diskCsv, attachCsv>>

\* the metadata query and the enrichment of every row of $diskChanges
Enrich ==
    /\ pc = "Enrich"
    /\ IF argAvailable
       THEN LET meta  == InvokeArgQuery(argSrv.meta)
                index == IndexDisk(<<>>, meta)
            IN  /\ diskMeta' = meta
                /\ diskChanges' = [i \in 1..Len(diskChanges) |-> EnrichRow(diskChanges[i], index)]
       ELSE UNCHANGED <<diskMeta, diskChanges>>
    /\ pc' = IF newDisksArg = <<>> THEN "Export" ELSE "Backfill"
    /\ UNCHANGED <<world, argAvailable, newDisksArg, subIdx, attachChanges, vmEventsByVm,
                   keysLeft, bfIdx, diskCsv, attachCsv>>

\* one row of foreach ($d in $newDisksArg)
BackfillRow ==
    /\ pc = "Backfill"
    /\ diskChanges' = IF ExistsCreated(diskChanges, newDisksArg[bfIdx])
                      THEN diskChanges
                      ELSE Append(diskChanges, ArgDiskChange(newDisksArg[bfIdx]))
    /\ bfIdx' = bfIdx + 1
    /\ pc' = IF bfIdx < Len(newDisksArg) THEN "Backfill" ELSE "Export"
    /\ UNCHANGED <<world, argAvailable, newDisksArg, subIdx, attachChanges, vmEventsByVm,
                   keysLeft, diskMeta, diskCsv, attachCsv>>

\* Sort-Object EventTime | Export-Csv, for both lists
Export ==
    /\ pc = "Export"
    /\ diskCsv' \in SortObject(diskChanges, [i \in 1..Len(diskChanges) |-> diskChanges[i].EventTime])
    /\ attachCsv' \in SortObject(attachChanges,
                                 [i \in 1..Len(attachChanges) |-> attachChanges[i].EventTime])
    /\ pc' = "Done"
    /\ UNCHANGED <<world, argAvailable, newDisksArg, subIdx, diskChanges, attachChanges,
                   vmEventsByVm, keysLeft, diskMeta, bfIdx>>

Next ==
    \/ Start
    \/ SetContext
    \/ ReadDisks
    \/ ReadVms
    \/ DiffKey
    \/ Enrich
    \/ BackfillRow
    \/ Export

\* ------------------------------------------------------------ the worlds
\* What the script runs against: the subscriptions of the tenant, their Activity
\* Logs and the Resource Graph.  A world is [subs, log, arg].
Sub(i) == [Id |-> Lower("sub" \o ToString(i)), Name |-> "Subscription " \o ToString(i)]

Rid(sub, rg, type, name) ==
    <<Lower(""), Lower("subscriptions"), sub, Lower("resourceGroups"), rg,
      Lower("providers"), Lower("Microsoft.Compute"), Lower(type), name>>

DiskOp(rid, last, t, corr) ==
    [ResultType         |-> "Success",
     EventTimestamp     |-> t,
     ResourceType       |-> "Microsoft.Compute/disks",
     ResourceId         |-> rid,
     OperationNameValue |-> <<Lower("Microsoft.Compute"), Lower("disks"), Lower(last)>>,
     ResourceGroupName  |-> rid[5],
     Caller             |-> "admin@contoso.com",
     CorrelationId      |-> corr,
     Properties         |-> [fields |-> [diskSizeGB |-> "128", name |-> "Premium_LRS"],
                             managedDisks |-> <<>>]]

VmOp(rid, t, disks, corr) ==
    [ResultType         |-> "Success",
     EventTimestamp     |-> t,
     ResourceType       |-> "Microsoft.Compute/virtualMachines",
     ResourceId         |-> rid,
     OperationNameValue |-> <<Lower("Microsoft.Compute"), Lower("virtualMachines"), Lower("write")>>,
     ResourceGroupName  |-> rid[5],
     Caller             |-> "admin@contoso.com",
     CorrelationId      |-> corr,
     Properties         |-> [fields |-> [vmSize |-> "Standard_D2s_v3"],
                             managedDisks |-> disks]]

OkRead(ops) == [ok |-> TRUE, ops |-> ops]
FailedRead == [ok |-> FALSE, ops |-> <<>>]
QuietLog == [ctx |-> TRUE, disks |-> OkRead(<<>>), vms |-> OkRead(<<>>)]

Page(rows, token) == [ok |-> TRUE, Data |-> rows, SkipToken |-> token]
FailedRequest == [ok |-> FALSE, Data |-> <<>>, SkipToken |-> 0]

ArgOff == [avail |-> FALSE, new |-> <<>>, meta |-> <<>>]

NewDiskRow(sub, rg, name, t) ==
    [name |-> name, subscriptionId |-> sub, resourceGroup |-> rg, location |-> Lower("westeurope"),
     timeCreated |-> t, diskSizeGB |-> "256", sku |-> "Standard_LRS", osType |-> "Linux",
     managedBy |-> "vm1", encryption |-> "EncryptionAtRestWithPlatformKey"]

MetaRow(sub, rg, name, loc) ==
    [diskName |-> name, subscriptionId |-> sub, resourceGroup |-> rg, location |-> Lower(loc),
     managedBy |-> "vm1", diskSizeGB |-> "512", sku |-> "Premium_LRS"]

\* the correlation id of the entry at position p of a log: one per entry
Corr(i, kind, p) == 100 * i + (IF kind = "disks" THEN 10 ELSE 20) + p

\* A log with at most one entry per timestamp of 1..MaxTime: f[t] is the entry of
\* time t (None: no entry), and the log lists its entries oldest first, newest
\* first, or the odd timestamps before the even ones.
None == <<>>
Slots(options) == [1..MaxTime -> options \cup {None}]
Oldest == [p \in 1..MaxTime |-> p]
Newest == [p \in 1..MaxTime |-> MaxTime + 1 - p]
OddEven == SelectSeq(Oldest, LAMBDA t : t % 2 = 1) \o SelectSeq(Oldest, LAMBDA t : t % 2 = 0)
Listing(f, order) == SelectSeq(order, LAMBDA t : f[t] # None)

OS == Lower("disk-os")
DATA1 == Lower("disk-data1")
DATA2 == Lower("disk-data2")

VmPayloads == { <<OS>>, <<OS, DATA1>>, <<OS, DATA1, DATA2>>, <<DATA1, DATA2>> }

\* two spellings of one VM, and a second VM
VmRids(i) == { Rid(Sub(i).Id, Lower("rg1"), "virtualMachines", Lower("vm1")),
               Rid(Mixed(Sub(i).Id.id), Mixed("rg1"), "virtualMachines", Mixed("vm1")),
               Rid(Sub(i).Id, Lower("rg1"), "virtualMachines", Lower("vm2")) }

VmLog(i, f, order) ==
    LET ts == Listing(f, order)
    IN  [p \in 1..Len(ts) |-> VmOp(f[ts[p]][1], ts[p], f[ts[p]][2], Corr(i, "vms", p))]

VmLogs(i) ==
    { VmLog(i, f, order) : f \in Slots(VmRids(i) \X VmPayloads), order \in {Newest, OddEven} }

\* logs of two events of one timestamp
VmTieLogs(i) ==
    { <<VmOp(a[1], 1, a[2], Corr(i, "vms", 1)), VmOp(b[1], 1, b[2], Corr(i, "vms", 2))>> :
      a \in VmRids(i) \X VmPayloads, b \in VmRids(i) \X VmPayloads }

\* a world that takes the script through every step
BaseWorld ==
    [subs |-> <<Sub(1)>>,
     log  |-> <<[ctx   |-> TRUE,
                 disks |-> OkRead(<<DiskOp(Rid(Sub(1).Id, Lower("rg1"), "disks", Lower("d1")), "write", 2,
                                           Corr(1, "disks", 1))>>),
                 vms   |-> OkRead(<<VmOp(Rid(Sub(1).Id, Lower("rg1"), "virtualMachines", Lower("vm1")),
                                         2, <<OS, DATA1>>, Corr(1, "vms", 1)),
                                    VmOp(Rid(Sub(1).Id, Lower("rg1"), "virtualMachines", Lower("vm1")),
                                         1, <<OS>>, Corr(1, "vms", 2))>>)]>>,
     arg  |-> [avail |-> TRUE,
               new   |-> <<Page(<<NewDiskRow(Sub(1).Id, Lower("rg1"), Lower("d1"), 1)>>, 0)>>,
               meta  |-> <<Page(<<MetaRow(Sub(1).Id, Lower("rg1"), Lower("d1"), "westeurope")>>, 0)>>]]

NoSubsWorld == [BaseWorld EXCEPT !.subs = <<>>, !.log = <<>>]

WorldsBase == { BaseWorld, NoSubsWorld }

\* one subscription and its VM write log
WorldsDiff ==
    { [subs |-> <<Sub(1)>>,
       log  |-> <<[QuietLog EXCEPT !.vms = OkRead(l)]>>,
       arg  |-> ArgOff] : l \in VmLogs(1) \cup VmTieLogs(1) }

InitIn(W) ==
    /\ \E w \in W :
         /\ subsObj = w.subs
         /\ azLog = w.log
         /\ argSrv = w.arg
    /\ pc = "Start"
    /\ argAvailable = FALSE
    /\ newDisksArg = <<>>
    /\ subIdx = 1
    /\ diskChanges = <<>>
    /\ attachChanges = <<>>
    /\ vmEventsByVm = <<>>
    /\ keysLeft = {}
    /\ diskMeta = <<>>
    /\ bfIdx = 1
    /\ diskCsv = <<>>
    /\ attachCsv = <<>>

\* two spellings of the resource id of one disk
DiskRids(i) == { Rid(Sub(i).Id, Lower("rg1"), "disks", Lower("d1")),
                 Rid(Mixed(Sub(i).Id.id), Mixed("rg1"), "disks", Mixed("d1")) }

DiskLog(i, f, order) ==
    LET ts == Listing(f, order)
    IN  [p \in 1..Len(ts) |-> DiskOp(f[ts[p]][1], f[ts[p]][2], ts[p], Corr(i, "disks", p))]

DiskLogs(i, lasts, orders) ==
    { DiskLog(i, f, order) : f \in Slots(DiskRids(i) \X lasts), order \in orders }

\* the rows of the "created since" query: at most one disk per creation time, in
\* either spelling
NewDiskLists(i) ==
    { LET ts == Listing(f, Oldest)
      IN  [p \in 1..Len(ts) |-> NewDiskRow(f[ts[p]][3], f[ts[p]][5], f[ts[p]][9], ts[p])] :
      f \in Slots(DiskRids(i)) }

\* one subscription, its disk log and the disks the Resource Graph reports as new
WorldsDedup ==
    { [subs |-> <<Sub(1)>>,
       log  |-> <<[QuietLog EXCEPT !.disks = OkRead(l)]>>,
       arg  |-> [avail |-> TRUE, new |-> <<Page(rows, 0)>>, meta |-> <<Page(<<>>, 0)>>]] :
      l \in DiskLogs(1, {"create", "write"}, {Oldest}), rows \in NewDiskLists(1) }

\* the rows of the metadata query: up to MaxMeta rows, of d1 in two spellings (in
\* different regions) and of a disk d9 that no log mentions
MetaRows(i) ==
    { MetaRow(Sub(i).Id, Lower("rg1"), Lower("d1"), "eastus"),
      MetaRow(Mixed(Sub(i).Id.id), Mixed("rg1"), Mixed("d1"), "westus"),
      MetaRow(Sub(i).Id, Lower("rg1"), Lower("d9"), "northeurope") }

MetaLists(i) == UNION { [1..n -> MetaRows(i)] : n \in 0..MaxMeta }

\* one subscription with a log of disk writes, the metadata the Resource Graph
\* holds (or a failing metadata query), and at most one disk reported as new
WorldsEnrich ==
    { [subs |-> <<Sub(1)>>,
       log  |-> <<[QuietLog EXCEPT !.disks = OkRead(l)]>>,
       arg  |-> [avail |-> TRUE, new |-> <<Page(rows, 0)>>, meta |-> meta]] :
      l \in DiskLogs(1, {"write"}, {Oldest}),
      rows \in { <<>>, <<NewDiskRow(Sub(1).Id, Lower("rg1"), Lower("d9"), 2)>> },
      meta \in { <<Page(ms, 0)>> : ms \in MetaLists(1) } \cup { <<FailedRequest>> } }

\* the first `count` rows that page k of the "created since" query holds
PageRows(k, count) ==
    SubSeq(<<NewDiskRow(Sub(1).Id, Lower("rg1"), Lower("a" \o ToString(k)), 1),
             NewDiskRow(Sub(1).Id, Lower("rg1"), Lower("b" \o ToString(k)), 2)>>, 1, count)

\* the answers of Search-AzGraph to a query of n requests: every answer but the
\* last carries the cursor of the next, and the last request is answered without
\* a cursor or fails
ArgAnswers(n) ==
    { [k \in 1..n |-> IF k < n THEN Page(PageRows(k, c[k]), k + 1)
                      ELSE IF lastFails THEN FailedRequest ELSE Page(PageRows(k, c[k]), 0)] :
      c \in [1..n -> 0..2], lastFails \in BOOLEAN }

\* one subscription with quiet logs and a "created since" query of up to MaxPages requests
WorldsArg ==
    { [subs |-> <<Sub(1)>>,
       log  |-> <<QuietLog>>,
       arg  |-> [avail |-> TRUE, new |-> answers, meta |-> <<Page(<<>>, 0)>>]] :
      answers \in UNION { ArgAnswers(n) : n \in 1..MaxPages } }

\* the logs of subscription i where the context, the disk read and the VM read
\* each succeed or fail
FailLog(i, ctx, disks, vms) ==
    [ctx   |-> ctx,
     disks |-> IF disks
               THEN OkRead(<<DiskOp(Rid(Sub(i).Id, Lower("rg1"), "disks", Lower("d1")), "write", 1,
                                    Corr(i, "disks", 1))>>)
               ELSE FailedRead,
     vms   |-> IF vms
               THEN OkRead(<<VmOp(Rid(Sub(i).Id, Lower("rg1"), "virtualMachines", Lower("vm1")),
                                  1, <<OS>>, Corr(i, "vms", 1)),
                             VmOp(Rid(Sub(i).Id, Lower("rg1"), "virtualMachines", Lower("vm1")),
                                  2, <<OS, DATA1>>, Corr(i, "vms", 2))>>)
               ELSE FailedRead]

\* up to MaxSubs subscriptions, any of whose context selections and reads fail
WorldsFail ==
    UNION { { [subs |-> [i \in 1..n |-> Sub(i)],
               log  |-> [i \in 1..n |-> FailLog(i, c[i], d[i], v[i])],
               arg  |-> ArgOff] :
              c \in [1..n -> BOOLEAN], d \in [1..n -> BOOLEAN], v \in [1..n -> BOOLEAN] } :
            n \in 1..MaxSubs }

\* writes of two VMs whose records come out of order whichever key is taken first
ExportVmLog ==
    <<VmOp(Rid(Sub(1).Id, Lower("rg1"), "virtualMachines", Lower("vm1")), 1, <<OS>>, Corr(1, "vms", 1)),
      VmOp(Rid(Sub(1).Id, Lower("rg1"), "virtualMachines", Lower("vm2")), 1, <<OS>>, Corr(1, "vms", 2)),
      VmOp(Rid(Sub(1).Id, Lower("rg1"), "virtualMachines", Lower("vm2")), 2, <<OS, DATA1>>,
           Corr(1, "vms", 3)),
      VmOp(Rid(Sub(1).Id, Lower("rg1"), "virtualMachines", Lower("vm1")), 3, <<DATA1>>,
           Corr(1, "vms", 4))>>

Reverse(seq) == [p \in 1..Len(seq) |-> seq[Len(seq) + 1 - p]]

\* up to MaxSubs subscriptions: the first with a disk log in any order and the VM
\* log above, the others with one early disk write each; the inventory may
\* report an early disk as new
WorldsExport ==
    { [subs |-> [i \in 1..n |-> Sub(i)],
       log  |-> [i \in 1..n |->
                   IF i = 1
                   THEN [ctx |-> TRUE, disks |-> OkRead(dl), vms |-> OkRead(vl)]
                   ELSE [QuietLog EXCEPT !.disks =
                           OkRead(<<DiskOp(Rid(Sub(i).Id, Lower("rg1"), "disks", Lower("d1")),
                                           "write", 1, Corr(i, "disks", 1))>>)]],
       arg  |-> [avail |-> TRUE, new |-> <<Page(rows, 0)>>, meta |-> <<Page(<<>>, 0)>>]] :
      n \in 1..MaxSubs,
      dl \in { DiskLog(1, f, order) :
               f \in Slots({<<Rid(Sub(1).Id, Lower("rg1"), "disks", Lower("d1")), "write">>}),
               order \in {Newest, OddEven} },
      vl \in { <<>>, ExportVmLog, Reverse(ExportVmLog) },
      rows \in { <<>>, <<NewDiskRow(Sub(1).Id, Lower("rg1"), Lower("d9"), 1)>> } }

\* resource paths of 1..MaxSegments segments: the id of a disk in either spelling
\* or with an empty subscription segment, cut short or with child segments
\* appended, and the blank path
Paths(i) ==
    { SubSeq(full \o [j \in 1..MaxSegments |-> Lower("child")], 1, n) :
        full \in DiskRids(i) \cup { Rid(Lower(""), Lower("rg1"), "disks", Lower("d1")) },
        n \in 1..MaxSegments } \cup { <<Lower(" ")>> }

\* one subscription whose disk log and VM log each report that resource path;
\* the Resource Graph module is not installed
WorldsPaths ==
    { [subs |-> <<Sub(1)>>,
       log  |-> <<[ctx   |-> TRUE,
                   disks |-> OkRead(<<[DiskOp(Rid(Sub(1).Id, Lower("rg1"), "disks", Lower("d1")),
                                              "write", 1, Corr(1, "disks", 1))
                                       EXCEPT !.ResourceId = parts]>>),
                   vms   |-> OkRead(<<[VmOp(Rid(Sub(1).Id, Lower("rg1"), "virtualMachines", Lower("vm1")),
                                            1, <<OS>>, Corr(1, "vms", 1))
                                       EXCEPT !.ResourceId = parts],
                                      [VmOp(Rid(Sub(1).Id, Lower("rg1"), "virtualMachines", Lower("vm1")),
                                            2, <<OS, DATA1>>, Corr(1, "vms", 2))
                                       EXCEPT !.ResourceId = parts]>>)]>>,
       arg  |-> ArgOff] : parts \in Paths(1) }

\* the kinds of entry a disk log holds: the three operations the script names (one
\* of them in capitals), two operations it does not name (one with "delete"
\* inside the name), and entries the filter drops
OpKinds ==
    {"create", "write", "delete", "DELETE", "action", "delete/action", "failed", "snapshot", "early"}

KindOp(kind, t, corr) ==
    LET rid  == Rid(Sub(1).Id, Lower("rg1"), "disks", Lower("d1"))
        op   == DiskOp(rid, "write", t, corr)
        name == <<Lower("Microsoft.Compute"), Lower("disks")>>
    IN  CASE kind = "create"        -> DiskOp(rid, "create", t, corr)
          [] kind = "delete"        -> DiskOp(rid, "delete", t, corr)
          [] kind = "DELETE"        -> [op EXCEPT !.OperationNameValue = name \o <<Mixed("delete")>>]
          [] kind = "action"        -> [op EXCEPT !.OperationNameValue =
                                          name \o <<Lower("beginGetAccess"), Lower("action")>>]
          [] kind = "delete/action" -> [op EXCEPT !.OperationNameValue =
                                          name \o <<Lower("delete"), Lower("action")>>]
          [] kind = "failed"        -> [op EXCEPT !.ResultType = "Failed"]
          [] kind = "snapshot"      -> [op EXCEPT !.ResourceType = "Microsoft.Compute/snapshots"]
          [] kind = "early"         -> [op EXCEPT !.EventTimestamp = StartDate - 1]
          [] OTHER                  -> op

\* one subscription whose disk log holds at most one entry of some kind per
\* timestamp, all of one disk; the Resource Graph module is not installed
WorldsOps ==
    { [subs |-> <<Sub(1)>>,
       log  |-> <<[QuietLog EXCEPT !.disks =
                     OkRead(LET ts == Listing(f, order)
                            IN  [p \in 1..Len(ts) |-> KindOp(f[ts[p]][1], ts[p], Corr(1, "disks", p))])]>>,
       arg  |-> ArgOff] :
      f \in Slots({ <<kind>> : kind \in OpKinds }), order \in {Oldest, Newest} }

\* the log entry as the service reports it when it spells the resource group name
\* in its own way
WithGroupName(op) == [op EXCEPT !.ResourceGroupName = Mixed("rg1")]

\* the worlds of WorldsEnrich with the Resource Graph module installed or not and
\* with the resource group name of every log entry spelled by the service
WorldsLocation ==
    { [subs |-> w.subs,
       log  |-> <<[w.log[1] EXCEPT !.disks =
                     OkRead([p \in 1..Len(w.log[1].disks.ops) |->
                               WithGroupName(w.log[1].disks.ops[p])])]>>,
       arg  |-> [w.arg EXCEPT !.avail = avail]] :
      w \in WorldsEnrich, avail \in BOOLEAN }

InitDiff == InitIn(WorldsBase \cup WorldsDiff)

SpecDiff == InitDiff /\ [][Next]_vars

InitEnrich == InitIn(WorldsBase \cup WorldsEnrich)

SpecEnrich == InitEnrich /\ [][Next]_vars

InitArg == InitIn(WorldsBase \cup WorldsArg)

SpecArg == InitArg /\ [][Next]_vars

InitFail == InitIn(WorldsBase \cup WorldsFail)

\* the script runs on its own: whenever a step is possible, one is taken
SpecFail == InitFail /\ [][Next]_vars /\ WF_vars(Next)

InitExport == InitIn(WorldsBase \cup WorldsExport)

SpecExport == InitExport /\ [][Next]_vars

InitPaths == InitIn(WorldsBase \cup WorldsPaths)

SpecPaths == InitPaths /\ [][Next]_vars

InitOps == InitIn(WorldsBase \cup WorldsOps)

SpecOps == InitOps /\ [][Next]_vars

InitLocation == InitIn(WorldsBase \cup WorldsLocation)

SpecLocation == InitLocation /\ [][Next]_vars

InitDedup == InitIn(WorldsBase \cup WorldsDedup)

SpecDedup == InitDedup /\ [][Next]_vars

\* ------------------------------------------------------------ properties
DiffDone == pc \in {"Enrich", "Backfill", "Export", "Done"}

Ids(snapshot) == { snapshot.DiskIds[i] : i \in 1..Len(snapshot.DiskIds) }

\* the orders of a list that are ascending by time
Arrangements(seq) ==
    { [i \in 1..Len(seq) |-> seq[q[i]]] :
      q \in { q \in [1..Len(seq) -> 1..Len(seq)] : \A a, b \in 1..Len(seq) : a # b => q[a] # q[b] } }

AscendingByTime(seq) == { s \in Arrangements(seq) : \A i \in 1..Len(s) - 1 : s[i].Time <= s[i + 1].Time }

KeyOfRecord(r) == <<ToLower(r.SubscriptionId), ToLower(r.ResourceGroup), ToLower(r.VmName)>>

RecordsOf(list, key) == { j \in 1..Len(list) : KeyOfRecord(list[j]) = key }

\* C1: once the diff loop is over, the attach/detach records of every VM key are
\* exactly those of the neighbouring pairs of its snapshots taken in ascending
\* order of time: per pair one Attached record for each disk id only the later
\* snapshot holds and one Detached record for each disk id only the earlier one
\* holds, all with the later snapshot's time; nothing for a disk id both hold,
\* nothing for a key with one snapshot, and no record of any other key.
C1_AttachmentDiff ==
    DiffDone =>
      /\ \A j \in 1..Len(attachChanges) :
           /\ KeyOfRecord(attachChanges[j]) \in DOMAIN vmEventsByVm
           /\ attachChanges[j].ChangeType \in {"Attached", "Detached"}
      /\ \A key \in DOMAIN vmEventsByVm :
           \E s \in AscendingByTime(vmEventsByVm[key]) :
              LET mine  == RecordsOf(attachChanges, key)
                  disks == UNION { Ids(s[i]) : i \in 1..Len(s) }
                             \cup { attachChanges[j].DiskId : j \in mine }
                  times == { s[i].Time : i \in 1..Len(s) }
                             \cup { attachChanges[j].EventTime : j \in mine }
              IN  \A d \in disks, t \in times :
                    /\ Cardinality({ j \in mine : /\ attachChanges[j].ChangeType = "Attached"
                                                  /\ attachChanges[j].DiskId = d
                                                  /\ attachChanges[j].EventTime = t })
                       = Cardinality({ i \in 2..Len(s) : /\ s[i].Time = t
                                                         /\ d \in Ids(s[i]) \ Ids(s[i - 1]) })
                    /\ Cardinality({ j \in mine : /\ attachChanges[j].ChangeType = "Detached"
                                                  /\ attachChanges[j].DiskId = d
                                                  /\ attachChanges[j].EventTime = t })
                       = Cardinality({ i \in 2..Len(s) : /\ s[i].Time = t
                                                         /\ d \in Ids(s[i - 1]) \ Ids(s[i]) })

\* a key whose snapshots {OS, DATA1} and then {DATA1, DATA2} arrived newest first
\* and left Attached(DATA2) and Detached(OS) at the later time and nothing for
\* DATA1, next to a key with a single snapshot and no record
C1_Witness ==
    /\ DiffDone
    /\ \E k1, k2 \in DOMAIN vmEventsByVm :
         /\ Len(vmEventsByVm[k1]) = 2
         /\ vmEventsByVm[k1][1].Time > vmEventsByVm[k1][2].Time
         /\ vmEventsByVm[k1][1].DiskIds = <<DATA1, DATA2>>
         /\ vmEventsByVm[k1][2].DiskIds = <<OS, DATA1>>
         /\ { <<attachChanges[j].ChangeType, attachChanges[j].DiskId, attachChanges[j].EventTime>> :
              j \in RecordsOf(attachChanges, k1) }
            = { <<"Attached", DATA2, vmEventsByVm[k1][1].Time>>,
                <<"Detached", OS, vmEventsByVm[k1][1].Time>> }
         /\ Len(vmEventsByVm[k2]) = 1
         /\ RecordsOf(attachChanges, k2) = {}

\* C2: every record comes from a neighbouring pair (previous, current) of its
\* key's snapshots in ascending order of time; an Attached record carries
\* current's VM name, subscription id, resource group, time and correlation id,
\* a Detached record carries current's time and correlation id but previous's
\* VM name, subscription id and resource group.
C2_RecordAttribution ==
    DiffDone =>
      \A key \in DOMAIN vmEventsByVm :
        \E s \in AscendingByTime(vmEventsByVm[key]) :
          \A j \in RecordsOf(attachChanges, key) :
            LET r == attachChanges[j]
            IN  \E i \in 2..Len(s) :
                  /\ r.EventTime = s[i].Time
                  /\ r.CorrelationId = s[i].CorrId
                  /\ r.ChangeType = "Attached" =>
                       /\ r.DiskId \in Ids(s[i]) \ Ids(s[i - 1])
                       /\ r.VmName = s[i].Vm
                       /\ r.SubscriptionId = s[i].SubId
                       /\ r.ResourceGroup = s[i].Rg
                  /\ r.ChangeType = "Detached" =>
                       /\ r.DiskId \in Ids(s[i - 1]) \ Ids(s[i])
                       /\ r.VmName = s[i - 1].Vm
                       /\ r.SubscriptionId = s[i - 1].SubId
                       /\ r.ResourceGroup = s[i - 1].Rg

\* a Detached record whose VM name, subscription id and resource group are
\* spelled as in the earlier snapshot and not as in the later one, whose
\* correlation id it carries; and an Attached record
C2_Witness ==
    /\ DiffDone
    /\ \E j \in 1..Len(attachChanges) : attachChanges[j].ChangeType = "Attached"
    /\ \E j \in 1..Len(attachChanges) :
         LET r == attachChanges[j]
         IN  /\ r.ChangeType = "Detached"
             /\ \E e \in { vmEventsByVm[KeyOfRecord(r)][i] : i \in 1..Len(vmEventsByVm[KeyOfRecord(r)]) } :
                  /\ e.CorrId = r.CorrelationId
                  /\ e.Time = r.EventTime
                  /\ e.Vm # r.VmName
                  /\ e.SubId # r.SubscriptionId
                  /\ e.Rg # r.ResourceGroup

\* the VM write events that the script reads from the logs of the world
ReadableVmOps ==
    UNION { { azLog[i].vms.ops[p] : p \in 1..Len(azLog[i].vms.ops) } :
            i \in { i \in 1..Len(subsObj) : azLog[i].ctx /\ azLog[i].vms.ok } }

KeyOfOp(op) == <<ToLower(op.ResourceId[3]), ToLower(op.ResourceId[5]), ToLower(op.ResourceId[9])>>

DisksOfOp(op) == { op.Properties.managedDisks[i] : i \in 1..Len(op.Properties.managedDisks) }

OnlyGrows(ops) ==
    \A a, b \in ops :
      /\ (a # b => a.EventTimestamp # b.EventTimestamp)
      /\ (a.EventTimestamp < b.EventTimestamp => DisksOfOp(a) \subseteq DisksOfOp(b))

\* C3: in the exported attach table, a VM whose write events have distinct times
\* and disk sets that only grow has no Detached row, no row for a disk of its
\* first event, and for every other disk of its events exactly one row, Attached,
\* with the time of the first event that references the disk.
C3_GrowingVm ==
    pc = "Done" =>
      \A key \in { KeyOfOp(op) : op \in ReadableVmOps } :
        LET ops   == { op \in ReadableVmOps : KeyOfOp(op) = key }
            first == CHOOSE a \in ops : \A b \in ops : a.EventTimestamp <= b.EventTimestamp
            rows  == RecordsOf(attachCsv, key)
        IN  OnlyGrows(ops) =>
              /\ \A j \in rows : attachCsv[j].ChangeType = "Attached"
              /\ \A j \in rows : attachCsv[j].DiskId \notin DisksOfOp(first)
              /\ \A d \in UNION { DisksOfOp(op) : op \in ops } \ DisksOfOp(first) :
                   \E j \in rows :
                     /\ attachCsv[j].DiskId = d
                     /\ \E op \in ops :
                          /\ d \in DisksOfOp(op)
                          /\ attachCsv[j].EventTime = op.EventTimestamp
                          /\ \A o \in ops : d \in DisksOfOp(o) => op.EventTimestamp <= o.EventTimestamp
                     /\ \A j2 \in rows : attachCsv[j2].DiskId = d => j2 = j

\* the scenario {OS}, {OS, DATA1}, {OS, DATA1, DATA2}, logged newest first: the
\* table holds the two Attached rows and nothing else
C3_Witness ==
    /\ pc = "Done"
    /\ Len(attachCsv) = 2
    /\ attachCsv[1].ChangeType = "Attached" /\ attachCsv[1].DiskId = DATA1 /\ attachCsv[1].EventTime = 2
    /\ attachCsv[2].ChangeType = "Attached" /\ attachCsv[2].DiskId = DATA2 /\ attachCsv[2].EventTime = 3
    /\ \E key \in DOMAIN vmEventsByVm :
         /\ Len(vmEventsByVm[key]) = 3
         /\ vmEventsByVm[key][1].Time = 3 /\ vmEventsByVm[key][1].DiskIds = <<OS, DATA1, DATA2>>
         /\ vmEventsByVm[key][2].Time = 2 /\ vmEventsByVm[key][2].DiskIds = <<OS, DATA1>>
         /\ vmEventsByVm[key][3].Time = 1 /\ vmEventsByVm[key][3].DiskIds = <<OS>>

\* the disk log entries that the script reads from the logs of the world
ReadableDiskOps ==
    UNION { { azLog[i].disks.ops[p] : p \in 1..Len(azLog[i].disks.ops) } :
            i \in { i \in 1..Len(subsObj) : azLog[i].ctx /\ azLog[i].disks.ok } }

IsCreate(op) == op.OperationNameValue[Len(op.OperationNameValue)] = Lower("create")

SameDisk(a, sub, rg, name) == a.SubscriptionId = sub /\ a.ResourceGroup = rg /\ a.DiskName = name

SameDiskIgnoringCase(a, sub, rg, name) ==
    /\ ToLower(a.SubscriptionId) = ToLower(sub)
    /\ ToLower(a.ResourceGroup) = ToLower(rg)
    /\ ToLower(a.DiskName) = ToLower(name)

\* C4: when the log yields Created entries for a disk and the "created since"
\* query returns a row with exactly the same subscription id, resource group and
\* disk name, the exported list holds each of those log entries once, as
\* source=ActivityLog, and holds no other Created row of that disk: none from
\* the inventory.
C4_LoggedCreationNotBackfilled ==
    pc = "Done" =>
      \A n \in 1..Len(newDisksArg) :
        LET d      == newDisksArg[n]
            logged == { op \in ReadableDiskOps :
                          /\ IsCreate(op)
                          /\ op.ResourceId[3] = d.subscriptionId
                          /\ op.ResourceId[5] = d.resourceGroup
                          /\ op.ResourceId[9] = d.name }
            rows   == { j \in 1..Len(diskCsv) :
                          /\ diskCsv[j].ChangeType = "Created"
                          /\ SameDisk(diskCsv[j], d.subscriptionId, d.resourceGroup, d.name) }
        IN  logged # {} =>
              /\ \A j \in rows : diskCsv[j].Source = "ActivityLog"
              /\ \A op \in logged :
                   Cardinality({ j \in rows : diskCsv[j].CorrelationId = op.CorrelationId }) = 1
              /\ Cardinality(rows) = Cardinality(logged)

\* the log created d1 once, the inventory reports d1 as new, and the export has
\* one Created row of d1, from the log
C4_Witness ==
    /\ pc = "Done"
    /\ Len(newDisksArg) = 1
    /\ Cardinality({ op \in ReadableDiskOps :
                       /\ IsCreate(op)
                       /\ op.ResourceId[3] = newDisksArg[1].subscriptionId
                       /\ op.ResourceId[5] = newDisksArg[1].resourceGroup
                       /\ op.ResourceId[9] = newDisksArg[1].name }) = 1
    /\ Cardinality({ j \in 1..Len(diskCsv) : diskCsv[j].ChangeType = "Created" }) = 1
    /\ \A j \in 1..Len(diskCsv) : diskCsv[j].Source = "ActivityLog"

\* what a turn of the backfill loop does to the list when `present` says whether
\* the row is taken to be in it already
BackfillTurn(present) ==
    LET d == newDisksArg[bfIdx]
    IN  IF present
        THEN diskChanges' = diskChanges
        ELSE /\ Len(diskChanges') = Len(diskChanges) + 1
             /\ SubSeq(diskChanges', 1, Len(diskChanges)) = diskChanges
             /\ LET r == diskChanges'[Len(diskChanges')]
                IN  /\ r.ChangeType = "Created"
                    /\ r.Source = "ARG"
                    /\ SameDisk(r, d.subscriptionId, d.resourceGroup, d.name)

\* C5 as stated: a row of the "created since" query is added as an inventory
\* record if and only if no Created record of the list has the identical
\* subscription id, resource group and disk name, letter case included.
C5_AsStated ==
    [][pc = "Backfill" =>
         BackfillTurn(\E i \in 1..Len(diskChanges) :
                         /\ diskChanges[i].ChangeType = "Created"
                         /\ SameDisk(diskChanges[i], newDisksArg[bfIdx].subscriptionId,
                                     newDisksArg[bfIdx].resourceGroup, newDisksArg[bfIdx].name))]_vars

\* C5 amended: a row of the "created since" query is added as an inventory
\* record if and only if no Created record of the list has the same subscription
\* id, resource group and disk name compared without regard to letter case.
C5_BackfillIgnoresCase ==
    [][pc = "Backfill" =>
         BackfillTurn(\E i \in 1..Len(diskChanges) :
                         /\ diskChanges[i].ChangeType = "Created"
                         /\ SameDiskIgnoringCase(diskChanges[i], newDisksArg[bfIdx].subscriptionId,
                                                 newDisksArg[bfIdx].resourceGroup,
                                                 newDisksArg[bfIdx].name))]_vars

\* the loop has passed a row that only a Created record of another spelling kept
\* out of the list, and a row that it added
C5_Witness ==
    /\ pc = "Export"
    /\ \E n \in 1..Len(newDisksArg) :
         LET d == newDisksArg[n]
         IN  /\ \E i \in 1..Len(diskChanges) :
                  /\ diskChanges[i].ChangeType = "Created"
                  /\ SameDiskIgnoringCase(diskChanges[i], d.subscriptionId, d.resourceGroup, d.name)
             /\ \A i \in 1..Len(diskChanges) :
                  ~SameDisk(diskChanges[i], d.subscriptionId, d.resourceGroup, d.name)
    /\ \E i \in 1..Len(diskChanges) : diskChanges[i].Source = "ARG"

\* every request of the metadata query was answered
MetaQuerySucceeded == \A k \in DOMAIN argSrv.meta : argSrv.meta[k].ok

\* the positions of the metadata rows whose key is the record's, letter case aside
MetaRowsOf(r) ==
    { k \in 1..Len(diskMeta) :
        SameDiskIgnoringCase(r, diskMeta[k].subscriptionId, diskMeta[k].resourceGroup,
                             diskMeta[k].diskName) }

Latest(S) == CHOOSE k \in S : \A h \in S : h <= k

CurrentFields == {"CurrentSizeGB", "CurrentSku", "ManagedBy"}

\* C6 as stated: with the inventory client available and the metadata query
\* answered, every exported disk record, from the log or backfilled, whose
\* subscription id, resource group and disk name match a metadata row without
\* regard to case has the location of that row (the last such row) and has
\* current size, current sku and managed-by filled in.
C6_AsStated ==
    (pc = "Done" /\ argAvailable /\ MetaQuerySucceeded) =>
      \A j \in 1..Len(diskCsv) :
        MetaRowsOf(diskCsv[j]) # {} =>
          /\ diskCsv[j].Location = diskMeta[Latest(MetaRowsOf(diskCsv[j]))].location
          /\ CurrentFields \subseteq DOMAIN diskCsv[j]

\* C7: the enrichment step leaves every CurrentSizeGB, CurrentSku and ManagedBy
\* value that a record carries as it is, keeps the list's length and each
\* record's other fields, and changes or adds no field besides Location and
\* those three.
C7_EnrichmentFrame ==
    [][pc = "Enrich" =>
         /\ Len(diskChanges') = Len(diskChanges)
         /\ \A i \in 1..Len(diskChanges) :
              LET before == diskChanges[i]
                  after  == diskChanges'[i]
              IN  /\ DOMAIN before \subseteq DOMAIN after
                  /\ DOMAIN after \subseteq DOMAIN before \cup CurrentFields
                  /\ \A f \in DOMAIN before : f # "Location" => after[f] = before[f]]_vars

\* enrichment has rewritten the location of a log record from a metadata row that
\* spells the disk differently
C7_Witness ==
    /\ pc = "Export"
    /\ argAvailable
    /\ \E i \in 1..Len(diskChanges) :
         /\ diskChanges[i].Source = "ActivityLog"
         /\ diskChanges[i].DiskName = Lower("d1")
         /\ diskChanges[i].ResourceGroup = Lower("rg1")
         /\ diskChanges[i].Location = Lower("westus")

LoopOver == pc \in {"Diff", "Enrich", "Backfill", "Export", "Done"}

IsPrefix(a, b) == Len(a) <= Len(b) /\ SubSeq(b, 1, Len(a)) = a

CorrelationIds(ops) == [p \in 1..Len(ops) |-> ops[p].CorrelationId]

SuccessfulOps(read, type) ==
    SelectSeq(read.ops, LAMBDA op : op.ResultType = "Success" /\ op.ResourceType = type)

\* the correlation ids of the log-derived disk records that carry the id of subscription i
DiskRecordsOfSub(i) ==
    CorrelationIds(SelectSeq(diskChanges,
                             LAMBDA r : r.Source = "ActivityLog"
                                        /\ ToLower(r.SubscriptionId) = ToLower(subsObj[i].Id)))

\* the correlation ids of the VM snapshots that carry the id of subscription i
SnapshotsOfSub(i) ==
    UNION { { vmEventsByVm[key][p].CorrId : p \in 1..Len(vmEventsByVm[key]) } :
            key \in { k \in DOMAIN vmEventsByVm : k[1] = ToLower(subsObj[i].Id) } }

Isolated(i) ==
    /\ DiskRecordsOfSub(i) =
         IF azLog[i].ctx /\ azLog[i].disks.ok
         THEN CorrelationIds(SuccessfulOps(azLog[i].disks, "Microsoft.Compute/disks"))
         ELSE <<>>
    /\ SnapshotsOfSub(i) =
         IF azLog[i].ctx /\ azLog[i].vms.ok
         THEN LET ops == SuccessfulOps(azLog[i].vms, "Microsoft.Compute/virtualMachines")
              IN  { ops[p].CorrelationId : p \in 1..Len(ops) }
         ELSE {}

\* a step keeps what the lists and the snapshot table hold
Kept ==
    /\ IsPrefix(diskChanges, diskChanges')
    /\ \A key \in DOMAIN vmEventsByVm :
         /\ key \in DOMAIN vmEventsByVm'
         /\ IsPrefix(vmEventsByVm[key], vmEventsByVm'[key])

IsolatedAfterLoop == [](LoopOver => \A i \in 1..Len(subsObj) : Isolated(i))

InLoop == pc \in {"SetContext", "ReadDisks", "ReadVms"}

LoopKeeps == [][InLoop => Kept]_vars

ExportReached == (pc = "SetContext") ~> (pc = "Done")

\* C8: once the subscription loop is over, every subscription has contributed
\* the disk records of its disk log if its context was selected and its disk read
\* succeeded and none otherwise, and the VM snapshots of its VM log if its
\* context was selected and its VM read succeeded and none otherwise, whatever
\* happened to its other log and to the other subscriptions; no step of the loop
\* drops what was accumulated before; and every run that enters the loop
\* reaches the export and completes it.
C8_FailureIsolation == IsolatedAfterLoop /\ LoopKeeps /\ ExportReached

\* two subscriptions, the disk read of the first and the VM read of the second
\* failed: the export has the attachment of the first and the disk write of the second
C8_Witness ==
    /\ pc = "Done"
    /\ Len(subsObj) = 2
    /\ azLog[1].ctx /\ ~azLog[1].disks.ok /\ azLog[1].vms.ok
    /\ azLog[2].ctx /\ azLog[2].disks.ok /\ ~azLog[2].vms.ok
    /\ Len(diskCsv) = 1 /\ diskCsv[1].SubscriptionId = subsObj[2].Id
    /\ Len(attachCsv) = 1 /\ attachCsv[1].SubscriptionId = subsObj[1].Id

\* the rows of the first n answers
RECURSIVE RowsUpTo(_, _)
RowsUpTo(srv, n) == IF n = 0 THEN <<>> ELSE RowsUpTo(srv, n - 1) \o srv[n].Data

Failures(srv) == { k \in DOMAIN srv : ~srv[k].ok }

FirstFailure(srv) == CHOOSE k \in Failures(srv) : \A h \in Failures(srv) : k <= h

Queried == pc \notin {"Start", "Exit"} /\ argAvailable

\* C9 as stated: the query returns the rows of all pages when no request fails,
\* and an empty result when a request fails, the first or a later one.
C9_AsStated ==
    Queried =>
      newDisksArg = IF Failures(argSrv.new) = {}
                    THEN RowsUpTo(argSrv.new, Len(argSrv.new))
                    ELSE <<>>

\* C9 amended: the query returns the rows of all pages when no request fails;
\* when a request fails it returns the rows of the pages fetched before the
\* failure, which is the empty result only when the first request fails; the
\* caller goes on either way.
C9_RowsFetchedBeforeFailure ==
    Queried =>
      newDisksArg = IF Failures(argSrv.new) = {}
                    THEN RowsUpTo(argSrv.new, Len(argSrv.new))
                    ELSE RowsUpTo(argSrv.new, FirstFailure(argSrv.new) - 1)

\* the third request failed and the run finished with the rows of the first two pages
C9_Witness ==
    /\ pc = "Done"
    /\ argAvailable
    /\ Len(argSrv.new) = 3
    /\ Failures(argSrv.new) = {3}
    /\ Len(newDisksArg) = 4
    /\ newDisksArg = argSrv.new[1].Data \o argSrv.new[2].Data

Count(seq, r) == Cardinality({ p \in 1..Len(seq) : seq[p] = r })

IsArrangementOf(out, list) ==
    /\ Len(out) = Len(list)
    /\ \A p \in 1..Len(list) : Count(out, list[p]) = Count(list, list[p])

NonDecreasing(out) == \A p \in 1..Len(out) - 1 : out[p].EventTime <= out[p + 1].EventTime

\* C10: each exported table holds the accumulated records of its list, each as
\* often as the list holds it, in non-decreasing order of event time.
C10_ExportSorted ==
    pc = "Done" =>
      /\ IsArrangementOf(diskCsv, diskChanges) /\ NonDecreasing(diskCsv)
      /\ IsArrangementOf(attachCsv, attachChanges) /\ NonDecreasing(attachCsv)

\* two subscriptions: both accumulated lists are out of order, the disk list ends
\* with a backfilled row older than the log record before it, and the attachment
\* list holds records of two VMs
C10_Witness ==
    /\ pc = "Done"
    /\ Len(subsObj) = 2
    /\ Len(diskChanges) >= 4
    /\ diskChanges[Len(diskChanges)].Source = "ARG"
    /\ \E p \in 1..Len(diskChanges) - 1 :
         /\ diskChanges[p + 1].SubscriptionId = subsObj[2].Id
         /\ diskChanges[p].EventTime > diskChanges[p + 1].EventTime
    /\ ~NonDecreasing(attachChanges)
    /\ \E p, q \in 1..Len(attachChanges) : attachChanges[p].VmName # attachChanges[q].VmName

\* the resource paths of the log entries the script reads
PathsRead ==
    UNION { { azLog[i].disks.ops[p].ResourceId : p \in 1..Len(azLog[i].disks.ops) } \cup
            { azLog[i].vms.ops[p].ResourceId : p \in 1..Len(azLog[i].vms.ops) } :
            i \in 1..Len(subsObj) }

\* what n segments make of a field that needs `least` of them
FromSegment(parts, least, p) == IF Len(parts) >= least THEN parts[p] ELSE Null

\* C11: for every resource path the logs hold, Parse-ResourceId yields an
\* identifier of five fields filled by the number n of segments alone:
\* subscription = segment 2 iff n >= 3, resource group = segment 4 iff n >= 5,
\* provider = segment 6 joined with segment 7 iff n >= 7 (with an empty type part
\* when n = 7), type = segment 7 and name = segment 8 iff n >= 9, every other
\* field null, so all null below 3 segments and for a blank path; and the disk
\* records and VM snapshots carry the subscription, resource group and name so
\* parsed.
C11_ParseBySegmentCount ==
    /\ \A parts \in PathsRead :
         LET r == ParseResourceId(parts)
             n == Len(parts)
         IN  /\ DOMAIN r = {"SubscriptionId", "ResourceGroup", "Provider", "Type", "Name"}
             /\ r.SubscriptionId = FromSegment(parts, 3, 3)
             /\ r.ResourceGroup = FromSegment(parts, 5, 5)
             /\ r.Provider = IF n >= 8 THEN <<parts[7], parts[8]>>
                             ELSE IF n = 7 THEN <<parts[7], Lower("")>> ELSE <<>>
             /\ r.Type = FromSegment(parts, 9, 8)
             /\ r.Name = FromSegment(parts, 9, 9)
             /\ n < 3 => r = NullResult
    /\ \A j \in 1..Len(diskChanges) :
         diskChanges[j].Source = "ActivityLog" =>
           /\ diskChanges[j].SubscriptionId = FromSegment(diskChanges[j].ResourceId, 3, 3)
           /\ diskChanges[j].ResourceGroup = FromSegment(diskChanges[j].ResourceId, 5, 5)
           /\ diskChanges[j].DiskName = FromSegment(diskChanges[j].ResourceId, 9, 9)

\* the export holds the record of a path of eight segments: subscription and
\* resource group from the path, no name
C11_Witness ==
    /\ pc = "Done"
    /\ \E j \in 1..Len(diskCsv) :
         /\ Len(diskCsv[j].ResourceId) = 8
         /\ diskCsv[j].SubscriptionId = diskCsv[j].ResourceId[3]
         /\ diskCsv[j].ResourceGroup = diskCsv[j].ResourceId[5]
         /\ diskCsv[j].DiskName = Null
         /\ ParseResourceId(diskCsv[j].ResourceId).Provider =
              <<diskCsv[j].ResourceId[7], diskCsv[j].ResourceId[8]>>
         /\ ParseResourceId(diskCsv[j].ResourceId).Type = Null

\* the change type that the last '/'-separated part of an operation name stands for
SuffixType(name) ==
    LET last == name[Len(name)].id
    IN  CASE last = "delete" -> "Deleted"
          [] last = "create" -> "Created"
          [] last = "write"  -> "Updated"
          [] OTHER           -> "Updated"

Qualifying(op) ==
    /\ op.ResultType = "Success"
    /\ op.EventTimestamp >= StartDate
    /\ op.ResourceType = "Microsoft.Compute/disks"

LogRows(list) == { j \in 1..Len(list) : list[j].Source = "ActivityLog" }

\* C12: after the subscription loop, and in the export, every qualifying entry
\* of a disk log that was read has exactly one record with source=ActivityLog
\* (found by its correlation id), of the entry's resource and time, whose change
\* type follows from the end of the operation name: /delete Deleted, /create
\* Created, /write Updated, anything else Updated; an entry that does not qualify
\* has none, and there are no further log records, so the entries of one disk
\* stay separate records.
C12_OneRecordPerLogEntry ==
    LoopOver =>
      LET list == IF pc = "Done" THEN diskCsv ELSE diskChanges
      IN  /\ \A op \in ReadableDiskOps :
               LET rows == { j \in LogRows(list) : list[j].CorrelationId = op.CorrelationId }
               IN  IF Qualifying(op)
                   THEN /\ Cardinality(rows) = 1
                        /\ \A j \in rows :
                             /\ list[j].ChangeType = SuffixType(op.OperationNameValue)
                             /\ list[j].ResourceId = op.ResourceId
                             /\ list[j].EventTime = op.EventTimestamp
                             /\ list[j].Operation = op.OperationNameValue
                   ELSE rows = {}
          /\ Cardinality(LogRows(list)) = Cardinality({ op \in ReadableDiskOps : Qualifying(op) })

\* the log lists a write of a disk before its earlier creation and an action on
\* it: the export holds three records of that disk, Created, then Updated, and
\* Updated for the action
C12_Witness ==
    /\ pc = "Done"
    /\ Len(diskCsv) = 3
    /\ \A j \in 1..3 : diskCsv[j].ResourceId = diskCsv[1].ResourceId
    /\ diskCsv[1].ChangeType = "Created" /\ diskCsv[1].Operation[3] = Lower("create")
    /\ diskCsv[2].ChangeType = "Updated" /\ diskCsv[2].Operation[3] = Lower("write")
    /\ diskCsv[3].ChangeType = "Updated" /\ Len(diskCsv[3].Operation) = 4
    /\ diskChanges[1].EventTime > diskChanges[2].EventTime

Enriched == pc \in {"Backfill", "Export", "Done"}

\* C13: once enrichment is over, and in the export, the Location of a record
\* with source=ActivityLog is the resource-group name of its log entry, unless
\* the inventory client was available and the metadata rows its query returned
\* hold a row of the record's subscription id, resource group and disk name
\* (letter case aside); then it is the location of the last such row.
C13_LocationIsGroupName ==
    Enriched =>
      LET list == IF pc = "Done" THEN diskCsv ELSE diskChanges
      IN  \A j \in LogRows(list) :
            \E op \in ReadableDiskOps :
              /\ op.CorrelationId = list[j].CorrelationId
              /\ list[j].Location =
                   IF argAvailable /\ MetaRowsOf(list[j]) # {}
                   THEN diskMeta[Latest(MetaRowsOf(list[j]))].location
                   ELSE op.ResourceGroupName

\* the metadata query returned rows, none of the disk of the log: the exported
\* record has the resource-group name of the log entry as its Location
C13_Witness ==
    /\ pc = "Done"
    /\ argAvailable
    /\ diskMeta # <<>>
    /\ \E j \in LogRows(diskCsv) :
         /\ MetaRowsOf(diskCsv[j]) = {}
         /\ diskCsv[j].ResourceGroup = Lower("rg1")
         /\ diskCsv[j].Location = Mixed("rg1")

====
